---------------------------- MODULE Spec2Model ----------------------------
(***************************************************************************)
(* Model of the job-fetcher pipeline (src/main.py): the Extraction         *)
(* Normalizer extract_json, the per-URL driver loop of main, and the       *)
(* Report Builder export_to_excel.                                         *)
(*                                                                         *)
(* A text (a Python str) is a sequence of tokens.  Every token is the      *)
(* TLA+ string of the characters it stands for, so the concatenation of a  *)
(* text's tokens is the concrete Python string:                            *)
(*   <<"{", "\"a\"", ":", "1", "}">>  is  {"a":1}                          *)
(* The one exception is the token FENCE, which stands for the three        *)
(* backticks ``` of a markdown code fence.                                 *)
(* The alphabet is chosen so that matching token by token agrees with      *)
(* matching character by character: backticks occur only as FENCE, string  *)
(* literals hold no brace, backtick or newline, and no token but "ERROR"   *)
(* starts with the characters ERROR.                                       *)
(***************************************************************************)
EXTENDS Integers, Sequences, FiniteSets, TLC

VARIABLES
    api_key,           \* the environment's GEMINI_API_KEY (None when unset)
    urls,              \* main: the list read_urls_from_file returned
    world,             \* what the network and the oracle can answer in this run
    pc,                \* main: the driver's position
    idx,               \* main: 1-based index of the URL being processed
    html_content,      \* main: last value returned by get_html
    job_response,      \* main: last value returned by parse_job
    job_data,          \* main: extract_json(job_response)
    review_response,   \* main: last value returned by get_reviews
    review_data,       \* main: extract_json(review_response)
    job_data_list,     \* main: accumulated Job Postings
    review_data_list,  \* main: accumulated Review Bundles
    calls,             \* log of the external calls made, in order
    fate,              \* per URL index: its state in the driver's state machine
    extracted,         \* per URL index: what extract_json was given and returned
    job_src,           \* per appended Job Posting: the URL index it came from
    review_src,        \* per appended Review Bundle: the URL index it came from
    workbook,          \* what wb.save wrote (written = FALSE: nothing)
    error,             \* the exception main's except clause caught, or "none"
    input_file,        \* process_company_list: whether the file exists, its lines
    companies,         \* process_company_list: the company names read
    career_page,       \* process_company_list: last value of find_career_page
    results,           \* process_company_list: the result lines collected
    output             \* process_company_list: the text written to output_file

vars == <<api_key, urls, world, pc, idx, html_content, job_response, job_data,
          review_response, review_data, job_data_list, review_data_list,
          calls, fate, extracted, job_src, review_src, workbook, error,
          input_file, companies, career_page, results, output>>

(* The variables of page_finder.py, which main.py leaves alone. *)
finder_vars == <<input_file, companies, career_page, results, output>>

(* os.path.exists(input_file) and the lines of the file. *)
NoInputFile == [exists |-> FALSE, lines |-> <<>>]
InputFile(lines) == [exists |-> TRUE, lines |-> lines]

---------------------------------------------------------------------------
(* Bounds of the model.                                                    *)

MaxUrls == 2
MaxLen == 4
MaxProse == 1
MaxJobs == 2
MaxBundles == 2

---------------------------------------------------------------------------
(* Tokens.                                                                 *)

FENCE == "FENCE"
NL == "\n"
SP == " "
Ws == {SP, NL}
Digits == {"0", "1", "5", "9"}
DigitVal == [d \in Digits |->
               CASE d = "0" -> 0 [] d = "1" -> 1 [] d = "5" -> 5 [] d = "9" -> 9]

(* The string literals of the model and the Python str each one decodes to. *)
StrToks == {"\"company_name\"", "\"match_score\"", "\"location\"", "\"city\"",
            "\"reviews\"", "\"aggregated_review_score\"", "\"source\"",
            "\"Acme\"", "\"Unknown\"", "\"\"", "\"9\"", "\"10\"", "\"a\""}
Unquote == [q \in StrToks |->
              CASE q = "\"company_name\"" -> "company_name"
                [] q = "\"match_score\"" -> "match_score"
                [] q = "\"location\"" -> "location"
                [] q = "\"city\"" -> "city"
                [] q = "\"reviews\"" -> "reviews"
                [] q = "\"aggregated_review_score\"" -> "aggregated_review_score"
                [] q = "\"source\"" -> "source"
                [] q = "\"Acme\"" -> "Acme"
                [] q = "\"Unknown\"" -> "Unknown"
                [] q = "\"\"" -> ""
                [] q = "\"9\"" -> "9"
                [] q = "\"10\"" -> "10"
                [] q = "\"a\"" -> "a"]

---------------------------------------------------------------------------
(* Python values.  Every value is a record of the same shape; kind says    *)
(* which Python type it is: "none" (None), "num" (int), "str", "list",     *)
(* "dict" (pairs in insertion order), and "blank" for a cell never written.*)

PyVal(k, num, str, its, prs) ==
    [kind |-> k, n |-> num, s |-> str, items |-> its, pairs |-> prs]
PyNone == PyVal("none", 0, "", <<>>, <<>>)
PyNum(i) == PyVal("num", i, "", <<>>, <<>>)
PyStr(str) == PyVal("str", 0, str, <<>>, <<>>)
PyList(its) == PyVal("list", 0, "", its, <<>>)
PyDict(prs) == PyVal("dict", 0, "", <<>>, prs)
Blank == PyVal("blank", 0, "", <<>>, <<>>)
EmptyDict == PyDict(<<>>)

(* bool(v) *)
Truthy(v) ==
    CASE v.kind = "num" -> v.n # 0
      [] v.kind = "str" -> v.s # ""
      [] v.kind = "list" -> v.items # <<>>
      [] v.kind = "dict" -> v.pairs # <<>>
      [] OTHER -> FALSE

HasKey(d, key) == \E i \in 1..Len(d.pairs) : d.pairs[i].k = key

(* d.get(key, default) for a dict d *)
Get(d, key, default) ==
    IF HasKey(d, key)
    THEN d.pairs[CHOOSE i \in 1..Len(d.pairs) : d.pairs[i].k = key].v
    ELSE default

(* d[key] = v for the pair list of a dict: a repeated key keeps its place. *)
DictSet(prs, key, v) ==
    IF \E i \in 1..Len(prs) : prs[i].k = key
    THEN [i \in 1..Len(prs) |->
            IF prs[i].k = key THEN [k |-> key, v |-> v] ELSE prs[i]]
    ELSE Append(prs, [k |-> key, v |-> v])

---------------------------------------------------------------------------
(* json.loads on a token text.                                             *)

ParseFail == [ok |-> FALSE, val |-> PyNone, pos |-> 0]
ParseOk(v, p) == [ok |-> TRUE, val |-> v, pos |-> p]

(* The first position at or after i that holds no whitespace. *)
SkipWs(t, i) ==
    CHOOSE j \in i..(Len(t) + 1) :
        /\ \A k \in i..(j - 1) : t[k] \in Ws
        /\ (j = Len(t) + 1 \/ t[j] \notin Ws)

(* The first position at or after i that holds no digit. *)
DigitsEnd(t, i) ==
    CHOOSE j \in i..(Len(t) + 1) :
        /\ \A k \in i..(j - 1) : t[k] \in Digits
        /\ (j = Len(t) + 1 \/ t[j] \notin Digits)

RECURSIVE DecimalValue(_, _, _)
DecimalValue(t, i, j) ==
    IF j < i THEN 0 ELSE 10 * DecimalValue(t, i, j - 1) + DigitVal[t[j]]

(* NUMBER_RE: 0, or a digit run that does not start with 0. *)
ParseNumber(t, i) ==
    IF t[i] = "0"
    THEN ParseOk(PyNum(0), i + 1)
    ELSE ParseOk(PyNum(DecimalValue(t, i, DigitsEnd(t, i) - 1)), DigitsEnd(t, i))

RECURSIVE ParseValue(_, _), ParseMembers(_, _, _), ParseElements(_, _, _),
          MembersAfter(_, _, _), ElementsAfter(_, _, _)

(* scan_once at position i *)
ParseValue(t, i) ==
    IF i > Len(t) THEN ParseFail
    ELSE CASE t[i] \in StrToks -> ParseOk(PyStr(Unquote[t[i]]), i + 1)
           [] t[i] \in Digits -> ParseNumber(t, i)
           [] t[i] = "null" -> ParseOk(PyNone, i + 1)
           [] t[i] = "{" ->
                LET j == SkipWs(t, i + 1) IN
                IF j > Len(t) THEN ParseFail
                ELSE IF t[j] = "}" THEN ParseOk(EmptyDict, j + 1)
                ELSE ParseMembers(t, j, <<>>)
           [] t[i] = "[" ->
                LET j == SkipWs(t, i + 1) IN
                IF j > Len(t) THEN ParseFail
                ELSE IF t[j] = "]" THEN ParseOk(PyList(<<>>), j + 1)
                ELSE ParseElements(t, j, <<>>)
           [] OTHER -> ParseFail

(* After a member's value r: "}" ends the object, "," leads to the next key. *)
MembersAfter(t, acc2, e) ==
    IF e > Len(t) THEN ParseFail
    ELSE IF t[e] = "}" THEN ParseOk(PyDict(acc2), e + 1)
    ELSE IF t[e] = "," THEN ParseMembers(t, SkipWs(t, e + 1), acc2)
    ELSE ParseFail

(* JSONObject from the key at position j on, with the pairs read so far.   *)
(* (x \in {e} names the value of e.)                                       *)
ParseMembers(t, j, acc) ==
    IF j > Len(t) THEN ParseFail
    ELSE IF t[j] \notin StrToks THEN ParseFail
    ELSE LET c == SkipWs(t, j + 1) IN
         IF c > Len(t) THEN ParseFail
         ELSE IF t[c] # ":" THEN ParseFail
         ELSE CHOOSE out \in
                {IF ~r.ok THEN ParseFail
                 ELSE CHOOSE o2 \in
                        {MembersAfter(t, acc2, e) :
                            acc2 \in {DictSet(acc, Unquote[t[j]], r.val)},
                            e \in {SkipWs(t, r.pos)}} : TRUE
                 : r \in {ParseValue(t, SkipWs(t, c + 1))}} : TRUE

(* After an item's value: "]" ends the array, "," leads to the next item. *)
ElementsAfter(t, acc2, e) ==
    IF e > Len(t) THEN ParseFail
    ELSE IF t[e] = "]" THEN ParseOk(PyList(acc2), e + 1)
    ELSE IF t[e] = "," THEN ParseElements(t, SkipWs(t, e + 1), acc2)
    ELSE ParseFail

(* JSONArray from the value at position j on, with the items read so far *)
ParseElements(t, j, acc) ==
    CHOOSE out \in
        {IF ~r.ok THEN ParseFail
         ELSE CHOOSE o2 \in
                {ElementsAfter(t, acc2, e) :
                    acc2 \in {Append(acc, r.val)},
                    e \in {SkipWs(t, r.pos)}} : TRUE
         : r \in {ParseValue(t, j)}} : TRUE

(* json.loads(t): ok = FALSE stands for the JSONDecodeError it raises. *)
JsonLoads(t) ==
    CHOOSE out \in
        {IF r.ok /\ SkipWs(t, r.pos) = Len(t) + 1
         THEN [ok |-> TRUE, val |-> r.val]
         ELSE [ok |-> FALSE, val |-> PyNone]
         : r \in {ParseValue(t, SkipWs(t, 1))}} : TRUE

---------------------------------------------------------------------------
(* extract_json.                                                           *)

(* Position of the first closing "\n```" whose newline is at or after c,   *)
(* or 0 when there is none.                                                *)
ClosingAt(t, c) ==
    LET E == {e \in c..(Len(t) - 1) : t[e] = NL /\ t[e + 1] = FENCE} IN
    IF E = {} THEN 0 ELSE CHOOSE e \in E : \A f \in E : e <= f

(* A fence pattern whose "json" tag is not optional. *)
FenceMatchAtTagged(t, i) ==
    IF t[i] # FENCE \/ i + 1 > Len(t) THEN [ok |-> FALSE, from |-> 0, to |-> 0]
    ELSE IF t[i + 1] # "json" THEN [ok |-> FALSE, from |-> 0, to |-> 0]
    ELSE LET j == i + 2
             w == SkipWs(t, j)
             C == {c \in (j + 1)..w : t[c - 1] = NL /\ ClosingAt(t, c) # 0}
         IN  IF C = {} THEN [ok |-> FALSE, from |-> 0, to |-> 0]
             ELSE LET c == CHOOSE x \in C : \A y \in C : y <= x
                  IN  [ok |-> TRUE, from |-> c, to |-> ClosingAt(t, c) - 1]

(* One match of r'```(?:json)?\s*\n(.*?)\n```' starting at position i:     *)
(* \s* is greedy, so the content starts after the last newline of the      *)
(* whitespace run that still leaves a closing fence; .*? is lazy, so the   *)
(* content ends at the first closing fence.                                *)
FenceMatchAt(t, i) ==
    IF t[i] # FENCE THEN [ok |-> FALSE, from |-> 0, to |-> 0]
    ELSE LET j == IF i + 1 <= Len(t) /\ t[i + 1] = "json" THEN i + 2 ELSE i + 1
             w == SkipWs(t, j)
             C == {c \in (j + 1)..w : t[c - 1] = NL /\ ClosingAt(t, c) # 0}
         IN  IF C = {} THEN [ok |-> FALSE, from |-> 0, to |-> 0]
             ELSE LET c == CHOOSE x \in C : \A y \in C : y <= x
                  IN  [ok |-> TRUE, from |-> c, to |-> ClosingAt(t, c) - 1]

(* re.findall of the fence pattern from position i on: the groups of the   *)
(* leftmost non-overlapping matches, in order.                             *)
RECURSIVE FenceMatches(_, _)
FenceMatches(t, i) ==
    IF i > Len(t) THEN <<>>
    ELSE LET m == FenceMatchAt(t, i) IN
         IF m.ok
         THEN <<SubSeq(t, m.from, m.to)>> \o FenceMatches(t, m.to + 3)
         ELSE FenceMatches(t, i + 1)

(* re.findall(r'(\{.*\})', text, re.DOTALL): greedy, from the first "{"    *)
(* to the last "}" after it; nothing is left to match after that.          *)
BraceMatches(t) ==
    LET A == {a \in 1..Len(t) : t[a] = "{"}
        B == {b \in 1..Len(t) : t[b] = "}"}
    IN  IF A = {} \/ B = {} THEN <<>>
        ELSE LET a == CHOOSE x \in A : \A y \in A : x <= y
                 b == CHOOSE x \in B : \A y \in B : y <= x
             IN  IF a < b THEN <<SubSeq(t, a, b)>> ELSE <<>>

(* The loops over patterns and matches: the first match that json.loads    *)
(* accepts is returned, whatever it is; {} when none does.                 *)
RECURSIVE FirstLoadable(_, _)
FirstLoadable(ms, i) ==
    IF i > Len(ms) THEN EmptyDict
    ELSE IF JsonLoads(ms[i]).ok THEN JsonLoads(ms[i]).val
    ELSE FirstLoadable(ms, i + 1)

ExtractJson(text) ==
    IF JsonLoads(text).ok THEN JsonLoads(text).val
    ELSE FirstLoadable(FenceMatches(text, 1) \o BraceMatches(text), 1)

---------------------------------------------------------------------------
(* Python's < on two values, as sorted uses it: "lt" (a < b), "ge" (not    *)
(* a < b) or "TypeError".  Two ints compare by value, two strs by code     *)
(* points; None, a dict, or an int against a str cannot be ordered.  (A    *)
(* list is ordered against a list in Python; no sort key of the model is a *)
(* list.)                                                                  *)

CodePoints == [str \in {Unquote[q] : q \in StrToks} |->
    CASE str = "" -> <<>>
      [] str = "9" -> <<57>>
      [] str = "10" -> <<49, 48>>
      [] str = "a" -> <<97>>
      [] str = "Acme" -> <<65, 99, 109, 101>>
      [] str = "Unknown" -> <<85, 110, 107, 110, 111, 119, 110>>
      [] str = "city" -> <<99, 105, 116, 121>>
      [] str = "source" -> <<115, 111, 117, 114, 99, 101>>
      [] str = "reviews" -> <<114, 101, 118, 105, 101, 119, 115>>
      [] str = "location" -> <<108, 111, 99, 97, 116, 105, 111, 110>>
      [] str = "match_score" ->
           <<109, 97, 116, 99, 104,
             95, 115, 99, 111, 114, 101>>
      [] str = "company_name" ->
           <<99, 111, 109, 112, 97, 110,
             121, 95, 110, 97, 109, 101>>
      [] str = "aggregated_review_score" ->
           <<97, 103, 103, 114, 101, 103, 97, 116, 101, 100, 95,
             114, 101, 118, 105, 101, 119, 95, 115, 99, 111, 114, 101>>]

SeqLt(a, b) ==
    \/ \E i \in 1..Len(a) :
          /\ i <= Len(b)
          /\ \A k \in 1..(i - 1) : a[k] = b[k]
          /\ a[i] < b[i]
    \/ /\ Len(a) < Len(b)
       /\ \A k \in 1..Len(a) : a[k] = b[k]

PyLess(a, b) ==
    IF a.kind = "num" /\ b.kind = "num"
    THEN IF a.n < b.n THEN "lt" ELSE "ge"
    ELSE IF a.kind = "str" /\ b.kind = "str"
    THEN IF SeqLt(CodePoints[a.s], CodePoints[b.s]) THEN "lt" ELSE "ge"
    ELSE "TypeError"

---------------------------------------------------------------------------
(* export_to_excel.                                                        *)

TopN == 5

(* One row of the Jobs Summary sheet, a dict in the source. *)
JobRow(job) ==
    [Company |-> Get(job, "company_name", PyStr("")),
     Role |-> Get(job, "role_name", PyStr("")),
     Experience |-> Get(job, "experience_required", PyStr("")),
     Level |-> Get(job, "experience_type", PyStr("")),
     Location |-> Get(Get(job, "location", EmptyDict), "city", PyStr("")),
     Remote |-> Get(job, "remote", PyStr("")),
     MatchScore |-> Get(job, "match_score", PyNum(0))]

(* job.get(...) needs a dict, and so does .get("city", "") on the location. *)
JobRowRaises(job) ==
    IF job.kind # "dict" THEN TRUE
    ELSE Get(job, "location", EmptyDict).kind # "dict"

(* sorted(keys..., reverse=True) raises TypeError exactly when it has to   *)
(* order two keys that Python cannot order: any comparison sort of two or  *)
(* more keys compares every key with another one.                          *)
SortRaises(keys) ==
    \E i \in 1..Len(keys) : \E j \in 1..Len(keys) :
        i # j /\ PyLess(keys[i], keys[j]) = "TypeError"

(* Where x goes in a list already in descending order: before the first    *)
(* element whose key is less than x's, so after every element that ties    *)
(* with it (sorted is stable, also under reverse=True).                    *)
InsertDesc(acc, keys, i) ==
    LET P == {p \in 1..Len(acc) : PyLess(keys[acc[p]], keys[i]) = "lt"}
        p == IF P = {} THEN Len(acc) + 1 ELSE CHOOSE x \in P : \A y \in P : x <= y
    IN  SubSeq(acc, 1, p - 1) \o <<i>> \o SubSeq(acc, p, Len(acc))

RECURSIVE SortedOrder(_, _)
SortedOrder(keys, n) ==
    IF n = 0 THEN <<>> ELSE InsertDesc(SortedOrder(keys, n - 1), keys, n)

(* sorted(rows, key=..., reverse=True), given the rows' keys: the rows in  *)
(* their new order.  Only called when SortRaises(keys) is false.           *)
SortedDesc(rows, keys) ==
    LET order == SortedOrder(keys, Len(keys)) IN
    [i \in 1..Len(rows) |-> rows[order[i]]]

BlankRow == [c \in 1..6 |-> Blank]

(* sheet.cell(row=row_num, column=c).value = new[c] for every c that new   *)
(* writes.  rows[k] is row k + 1 of the sheet (row 1 holds the headers).   *)
WriteRow(rows, row_num, new) ==
    LET k == row_num - 1
        padded == IF k > Len(rows)
                  THEN rows \o [i \in 1..(k - Len(rows)) |-> BlankRow]
                  ELSE rows
    IN  [padded EXCEPT ![k] =
            [c \in 1..6 |-> IF new[c] = Blank THEN @[c] ELSE new[c]]]

(* The inner loop: one row per review of one bundle. *)
RECURSIVE ReviewEntryRows(_, _, _, _, _, _)
ReviewEntryRows(reviews, j, company_name, aggregated_score, row_num, rows) ==
    IF j > Len(reviews)
    THEN [raised |-> "none", row_num |-> row_num, rows |-> rows]
    ELSE IF reviews[j].kind # "dict"
    THEN [raised |-> "AttributeError", row_num |-> row_num, rows |-> rows]
    ELSE ReviewEntryRows(reviews, j + 1, company_name, aggregated_score,
            row_num + 1,
            WriteRow(rows, row_num,
                <<company_name, aggregated_score,
                  Get(reviews[j], "source", PyStr("")),
                  Get(reviews[j], "rating", PyStr("")),
                  Get(reviews[j], "comment", PyStr("")),
                  Get(reviews[j], "url", PyStr(""))>>))

(* A loop that forgets row_num += 1 for a bundle without reviews. *)
RECURSIVE ReviewRowsNoAdvance(_, _, _, _)
ReviewRowsNoAdvance(bundles, i, row_num, rows) ==
    IF i > Len(bundles) THEN [raised |-> "none", rows |-> rows]
    ELSE IF bundles[i].kind # "dict"
    THEN [raised |-> "AttributeError", rows |-> rows]
    ELSE LET company_name == Get(bundles[i], "company_name", PyStr(""))
             aggregated_score == Get(bundles[i], "aggregated_review_score", PyNum(0))
             reviews == Get(bundles[i], "reviews", PyList(<<>>))
         IN  IF ~Truthy(reviews)
             THEN ReviewRowsNoAdvance(bundles, i + 1, row_num,
                     WriteRow(rows, row_num,
                         <<company_name, aggregated_score, Blank, Blank, Blank, Blank>>))
             ELSE IF reviews.kind = "num"
             THEN [raised |-> "TypeError", rows |-> rows]
             ELSE IF reviews.kind # "list"
             THEN [raised |-> "AttributeError", rows |-> rows]
             ELSE LET r == ReviewEntryRows(reviews.items, 1, company_name,
                                aggregated_score, row_num, rows)
                  IN  IF r.raised # "none"
                      THEN [raised |-> r.raised, rows |-> rows]
                      ELSE ReviewRowsNoAdvance(bundles, i + 1, r.row_num, r.rows)

(* The loop over review_data_list that fills the Company Reviews sheet. *)
RECURSIVE ReviewRows(_, _, _, _)
ReviewRows(bundles, i, row_num, rows) ==
    IF i > Len(bundles) THEN [raised |-> "none", rows |-> rows]
    ELSE IF bundles[i].kind # "dict"
    THEN [raised |-> "AttributeError", rows |-> rows]
    ELSE LET company_name == Get(bundles[i], "company_name", PyStr(""))
             aggregated_score == Get(bundles[i], "aggregated_review_score", PyNum(0))
             reviews == Get(bundles[i], "reviews", PyList(<<>>))
         IN  IF ~Truthy(reviews)
             THEN ReviewRows(bundles, i + 1, row_num + 1,
                     WriteRow(rows, row_num,
                         <<company_name, aggregated_score, Blank, Blank, Blank, Blank>>))
             ELSE IF reviews.kind = "num"
             THEN [raised |-> "TypeError", rows |-> rows]
             ELSE IF reviews.kind # "list"
             THEN [raised |-> "AttributeError", rows |-> rows]
             ELSE LET r == ReviewEntryRows(reviews.items, 1, company_name,
                                aggregated_score, row_num, rows)
                  IN  IF r.raised # "none"
                      THEN [raised |-> r.raised, rows |-> rows]
                      ELSE ReviewRows(bundles, i + 1, r.row_num, r.rows)

NoWorkbook ==
    [written |-> FALSE, sheets |-> <<>>, jobs_rows |-> <<>>, reviews_rows |-> <<>>,
     total_jobs |-> 0, companies_reviewed |-> 0, top_matches |-> <<>>]

Raised(e) == [raised |-> e, wb |-> NoWorkbook]

MatchScores(job_list) ==
    [i \in 1..Len(job_list) |-> Get(job_list[i], "match_score", PyNum(0))]

(* export_to_excel(job_data_list, review_data_list): the exception it      *)
(* raises, or "none" and the workbook wb.save wrote.                       *)
ExportToExcel(job_list, review_list) ==
    IF \E i \in 1..Len(job_list) : JobRowRaises(job_list[i])
    THEN Raised("AttributeError")
    ELSE IF SortRaises(MatchScores(job_list))
    THEN Raised("TypeError")
    ELSE LET jobs_rows == SortedDesc([i \in 1..Len(job_list) |-> JobRow(job_list[i])],
                                     MatchScores(job_list))
             rv == ReviewRows(review_list, 1, 2, <<>>)
             sorted_jobs == SortedDesc(job_list, MatchScores(job_list))
             top == SubSeq(sorted_jobs, 1,
                           IF Len(sorted_jobs) < TopN THEN Len(sorted_jobs) ELSE TopN)
         IN  IF rv.raised # "none" THEN Raised(rv.raised)
             ELSE [raised |-> "none",
                   wb |-> [written |-> TRUE,
                           sheets |-> <<"Summary">>
                               \o (IF job_list # <<>> THEN <<"Jobs Summary">> ELSE <<>>)
                               \o (IF review_list # <<>> THEN <<"Company Reviews">> ELSE <<>>),
                           jobs_rows |-> jobs_rows,
                           reviews_rows |-> rv.rows,
                           total_jobs |-> Len(job_list),
                           companies_reviewed |-> Len(review_list),
                           top_matches |-> [i \in 1..Len(top) |->
                               [company |-> Get(top[i], "company_name", PyStr("")),
                                role |-> Get(top[i], "role_name", PyStr("")),
                                score |-> Get(top[i], "match_score", PyNum(0))]]]]

---------------------------------------------------------------------------
(* The external calls.  A result is what the outside world did: the call   *)
(* raised (a network error, a timeout, a bad status, a missing key), or it *)
(* returned text.                                                          *)

Result(r, t) == [raised |-> r, text |-> t]

(* f"ERROR: {e}" *)
ErrorMarker == <<"ERROR", ":", SP, "x">>

(* get_html: the page's markup, or the marker when anything raised. *)
GetHtml(r) == IF r.raised THEN ErrorMarker ELSE r.text

(* Genai.send_request: the oracle's text, or the marker when anything raised. *)
SendRequest(r) == IF r.raised THEN ErrorMarker ELSE r.text

(* str.startswith("ERROR") *)
StartsWithError(t) == IF Len(t) = 0 THEN FALSE ELSE t[1] = "ERROR"

---------------------------------------------------------------------------
(* main: the driver.                                                       *)

Call(i, op, r) == [i |-> i, op |-> op, raised |-> r.raised]

(* What extract_json was called with for one URL, and what it returned:    *)
(* once for the job response, once for the review response.                *)
NotCalled == [called |-> FALSE, text |-> <<>>, val |-> PyNone]
Extraction(t) == [called |-> TRUE, text |-> t, val |-> ExtractJson(t)]
NotExtracted == [job |-> NotCalled, review |-> NotCalled]

(* Where the for loop goes after URL idx: the next URL, or the export. *)
AfterUrl == IF idx + 1 > Len(urls) THEN "export" ELSE "get_html"

(* Genai.__init__: "if not self.api_key: raise ValueError". *)
GenaiInitRaises(key) == ~Truthy(key)

(* main's start: genai_client = Genai(), whose ValueError main's except    *)
(* clause catches (the run ends before the URLs are read); then            *)
(* "if not urls: return", else the loop starts.                            *)
Start ==
    /\ pc = "start"
    /\ IF GenaiInitRaises(api_key)
       THEN /\ pc' = "done"
            /\ error' = "ValueError"
       ELSE /\ pc' = IF urls = <<>> THEN "done" ELSE "get_html"
            /\ error' = error
    /\ UNCHANGED finder_vars
    /\ UNCHANGED <<api_key, urls, world, idx, html_content, job_response, job_data,
                   review_response, review_data, job_data_list, review_data_list,
                   calls, fate, extracted, job_src, review_src, workbook>>

(* A driver that fetches the same URL again when the fetch failed. *)
FetchRetry ==
    /\ pc = "get_html"
    /\ \E r \in world.pages :
        /\ html_content' = GetHtml(r)
        /\ calls' = Append(calls, Call(idx, "get_html", r))
        /\ IF StartsWithError(GetHtml(r))
           THEN /\ fate' = [fate EXCEPT ![idx] = "skipped"]
                /\ idx' = IF Len(calls) < 2 * Len(urls) THEN idx ELSE idx + 1
                /\ pc' = IF Len(calls) < 2 * Len(urls) THEN "get_html" ELSE AfterUrl
           ELSE /\ fate' = [fate EXCEPT ![idx] = "extracting"]
                /\ idx' = idx
                /\ pc' = "parse_job"
    /\ UNCHANGED finder_vars
    /\ UNCHANGED <<api_key, urls, world, job_response, job_data, review_response,
                   review_data, job_data_list, review_data_list, extracted,
                   job_src, review_src, workbook, error>>

(* html_content = get_html(url), and the skip when it starts with ERROR. *)
Fetch ==
    /\ pc = "get_html"
    /\ \E r \in world.pages :
        /\ html_content' = GetHtml(r)
        /\ calls' = Append(calls, Call(idx, "get_html", r))
        /\ IF StartsWithError(GetHtml(r))
           THEN /\ fate' = [fate EXCEPT ![idx] = "skipped"]
                /\ idx' = idx + 1
                /\ pc' = AfterUrl
           ELSE /\ fate' = [fate EXCEPT ![idx] = "extracting"]
                /\ idx' = idx
                /\ pc' = "parse_job"
    /\ UNCHANGED finder_vars
    /\ UNCHANGED <<api_key, urls, world, job_response, job_data, review_response,
                   review_data, job_data_list, review_data_list, extracted,
                   job_src, review_src, workbook, error>>

(* A driver that forgets the 'Unknown' sentinel. *)
WantsReviewsNoSentinel(job) ==
    Truthy(Get(job, "company_name", PyStr("Unknown")))

(* company and company != 'Unknown', for the company of a job record *)
WantsReviews(job) ==
    LET company == Get(job, "company_name", PyStr("Unknown")) IN
    IF Truthy(company) THEN company # PyStr("Unknown") ELSE FALSE

(* A driver that tests "job_data is not None" instead of "job_data". *)
JobStepNotNone(response) ==
    LET data == ExtractJson(response) IN
    IF data.kind = "none" THEN "drop"
    ELSE IF data.kind # "dict" THEN "raise"
    ELSE IF WantsReviews(data) THEN "review"
    ELSE "append"

(* What main does with a job response that does not start with ERROR:      *)
(* "raise" (job_data.get on a value that is no dict), "review", "append"   *)
(* (a record whose company is unresolved) or "drop" (a falsy job_data).    *)
JobStep(response) ==
    LET data == ExtractJson(response) IN
    IF ~Truthy(data) THEN "drop"
    ELSE IF data.kind # "dict" THEN "raise"
    ELSE IF WantsReviews(data) THEN "review"
    ELSE "append"

(* job_response = parse_job(...), extract_json, and the branch on job_data *)
(* up to the next external call.                                           *)
ParseJob ==
    /\ pc = "parse_job"
    /\ \E r \in world.job_replies :
        LET response == SendRequest(r)
            step == IF StartsWithError(response) THEN "skip" ELSE JobStep(response)
        IN  /\ job_response' = response
            /\ calls' = Append(calls, Call(idx, "parse_job", r))
            /\ job_data' = IF step = "skip" THEN job_data ELSE ExtractJson(response)
            /\ extracted' = IF step = "skip" THEN extracted
                            ELSE [extracted EXCEPT ![idx].job = Extraction(response)]
            /\ job_data_list' = IF step = "append"
                                THEN Append(job_data_list, ExtractJson(response))
                                ELSE job_data_list
            /\ job_src' = IF step = "append" THEN Append(job_src, idx) ELSE job_src
            /\ fate' = [fate EXCEPT ![idx] =
                          CASE step = "skip" -> "skipped"
                            [] step = "drop" -> "skipped"
                            [] step = "append" -> "accumulated"
                            [] step = "review" -> "reviewing"
                            [] step = "raise" -> "extracting"]
            /\ error' = IF step = "raise" THEN "AttributeError" ELSE error
            /\ idx' = IF step \in {"skip", "drop", "append"} THEN idx + 1 ELSE idx
            /\ pc' = CASE step = "raise" -> "done"
                       [] step = "review" -> "get_reviews"
                       [] OTHER -> AfterUrl
    /\ UNCHANGED finder_vars
    /\ UNCHANGED <<api_key, urls, world, html_content, review_response, review_data,
                   review_data_list, review_src, workbook>>

(* What main does with a review response: "none" (an ERROR marker or a     *)
(* falsy review_data: no bundle), "raise" (review_data.get on a value that *)
(* is no dict) or "append".                                                *)
ReviewStep(response) ==
    IF StartsWithError(response) THEN "none"
    ELSE LET data == ExtractJson(response) IN
         IF ~Truthy(data) THEN "none"
         ELSE IF data.kind # "dict" THEN "raise"
         ELSE "append"

(* review_response = get_reviews(company), the optional append of the      *)
(* bundle, and job_data_list.append(job_data).                             *)
GetReviews ==
    /\ pc = "get_reviews"
    /\ \E r \in world.review_replies :
        LET response == SendRequest(r)
            step == ReviewStep(response)
        IN  /\ review_response' = response
            /\ calls' = Append(calls, Call(idx, "get_reviews", r))
            /\ review_data' = IF StartsWithError(response) THEN review_data
                              ELSE ExtractJson(response)
            /\ extracted' = IF StartsWithError(response) THEN extracted
                            ELSE [extracted EXCEPT ![idx].review = Extraction(response)]
            /\ review_data_list' = IF step = "append"
                                   THEN Append(review_data_list, ExtractJson(response))
                                   ELSE review_data_list
            /\ review_src' = IF step = "append" THEN Append(review_src, idx)
                             ELSE review_src
            /\ job_data_list' = IF step = "raise" THEN job_data_list
                                ELSE Append(job_data_list, job_data)
            /\ job_src' = IF step = "raise" THEN job_src ELSE Append(job_src, idx)
            /\ fate' = IF step = "raise" THEN fate
                       ELSE [fate EXCEPT ![idx] = "accumulated"]
            /\ error' = IF step = "raise" THEN "AttributeError" ELSE error
            /\ idx' = IF step = "raise" THEN idx ELSE idx + 1
            /\ pc' = IF step = "raise" THEN "done" ELSE AfterUrl
    /\ UNCHANGED finder_vars
    /\ UNCHANGED <<api_key, urls, world, html_content, job_response, job_data, workbook>>

(* After the loop: export when either list holds something, else          *)
(* "No data to export".  An exception of export_to_excel is caught by      *)
(* main's except clause; nothing was saved then.                           *)
Export ==
    /\ pc = "export"
    /\ LET out == IF job_data_list # <<>> \/ review_data_list # <<>>
                  THEN ExportToExcel(job_data_list, review_data_list)
                  ELSE Raised("none")
       IN  /\ workbook' = out.wb
           /\ error' = IF out.raised # "none" THEN out.raised ELSE error
    /\ pc' = "done"
    /\ UNCHANGED finder_vars
    /\ UNCHANGED <<api_key, urls, world, idx, html_content, job_response, job_data,
                   review_response, review_data, job_data_list, review_data_list,
                   calls, fate, extracted, job_src, review_src>>

Next == Start \/ Fetch \/ ParseJob \/ GetReviews \/ Export

---------------------------------------------------------------------------
(* The inputs of the model.                                                *)

RECURSIVE SeqsUpTo(_, _)
SeqsUpTo(S, n) ==
    IF n = 0 THEN {<<>>}
    ELSE LET P == SeqsUpTo(S, n - 1) IN
         P \cup {Append(q, a) : q \in {x \in P : Len(x) = n - 1}, a \in S}

Pair(key, v) == <<key, ":">> \o v
Obj1(m1) == <<"{">> \o m1 \o <<"}">>
Obj2(m1, m2) == <<"{">> \o m1 \o <<",">> \o m2 \o <<"}">>
Obj3(m1, m2, m3) == <<"{">> \o m1 \o <<",">> \o m2 \o <<",">> \o m3 \o <<"}">>
Fenced(tag, t) == <<FENCE>> \o tag \o <<NL>> \o t \o <<NL, FENCE>>

Company(q) == Pair("\"company_name\"", <<q>>)
Score(v) == Pair("\"match_score\"", v)

(* Oracle answers to the job-extraction query. *)
JobAcme9 == Obj2(Company("\"Acme\""), Score(<<"9">>))
JobAcmeStr9 == <<"x", NL>> \o Fenced(<<"json">>, Obj2(Company("\"Acme\""), Score(<<"\"9\"">>)))
JobUnknown == Obj2(Company("\"Unknown\""), Score(<<"5">>))
JobNoCompany == Obj1(Score(<<"5">>))
JobBlankCompany == Obj1(Company("\"\""))
JobList == <<"[", "1", "]">>
JobProse == <<"x">>
JobHalfBrace == <<"x", "{", "x">>
JobEmpty == <<"{", "}">>
JobNull == <<"null">>
JobErrorText == <<"ERROR", SP, "x">>

JobReplies == {JobAcme9, JobAcmeStr9, JobUnknown, JobNoCompany, JobBlankCompany,
               JobList, JobProse, JobHalfBrace, JobEmpty, JobNull, JobErrorText}

(* Oracle answers to the review-aggregation query. *)
Source(q) == Obj1(Pair("\"source\"", <<q>>))
BundleNoReviews ==
    Obj3(Company("\"Acme\""), Pair("\"reviews\"", <<"[", "]">>),
         Pair("\"aggregated_review_score\"", <<"9">>))
BundleOneReview ==
    Fenced(<<>>, Obj2(Company("\"a\""),
                      Pair("\"reviews\"", <<"[">> \o Source("\"a\"") \o <<"]">>)))
BundleTwoReviews ==
    Obj2(Pair("\"reviews\"", <<"[">> \o Source("\"a\"") \o <<",">>
                                  \o Source("\"Acme\"") \o <<"]">>),
         Pair("\"aggregated_review_score\"", <<"5">>))
BundleNoKey == Obj1(Company("\"Unknown\""))

ReviewReplies == {BundleNoReviews, BundleOneReview, JobProse, JobList}

Pages == {<<"x">>, <<"ERROR", SP, "x">>}

Answers(texts) == {Result(TRUE, <<>>)} \cup {Result(FALSE, t) : t \in texts}

World == [pages |-> Answers(Pages),
          job_replies |-> Answers(JobReplies),
          review_replies |-> Answers(ReviewReplies)]

(* Texts for the Extraction Normalizer: every text of up to MaxLen tokens, *)
(* and valid JSON in a code fence between prose of up to MaxProse tokens.  *)
ArbAlphabet == {"{", "}", "[", "]", "\"a\"", ":", "1", FENCE, NL, "x"}
ProseAlphabet == {"x", "{", "}", NL, "1"}
Contents == {<<"1">>, <<"[", "1", "]">>, <<"\"a\"">>, <<"{", "}">>, JobAcme9,
             <<"[", NL, "1", NL, "]">>}
FencedTexts ==
    {pre \o <<FENCE>> \o tag \o gap \o <<NL>> \o c \o <<NL, FENCE>> \o post :
        pre \in SeqsUpTo(ProseAlphabet, MaxProse),
        post \in SeqsUpTo(ProseAlphabet \cup {FENCE}, MaxProse),
        tag \in {<<>>, <<"json">>}, gap \in {<<>>, <<SP>>}, c \in Contents}
Texts == SeqsUpTo(ArbAlphabet, MaxLen) \cup FencedTexts

(* Job Postings and Review Bundles for the Report Builder. *)
JobPool == {JsonLoads(t).val : t \in
    {JobAcme9,
     Obj2(Company("\"Acme\""), Score(<<"5">>)),
     Obj2(Company("\"a\""), Score(<<"5">>)),
     Obj2(Company("\"a\""), Score(<<"0">>)),
     Obj1(Company("\"Unknown\"")),
     Obj2(Company("\"Acme\""), Score(<<"\"9\"">>)),
     Obj1(Score(<<"null">>))}}
BundlePool == {JsonLoads(t).val : t \in
    {BundleNoReviews, BundleNoKey, BundleTwoReviews,
     Obj2(Company("\"a\""),
          Pair("\"reviews\"", <<"[">> \o Source("\"a\"") \o <<"]">>))}}

---------------------------------------------------------------------------
(* Specifications.                                                         *)

InitMain(u, w) ==
    /\ urls = u
    /\ world = w
    /\ pc = "start"
    /\ idx = 1
    /\ html_content = <<>>
    /\ job_response = <<>>
    /\ job_data = PyNone
    /\ review_response = <<>>
    /\ review_data = PyNone
    /\ job_data_list = <<>>
    /\ review_data_list = <<>>
    /\ calls = <<>>
    /\ fate = [i \in 1..Len(u) |-> "pending"]
    /\ extracted = [i \in 1..Len(u) |-> NotExtracted]
    /\ job_src = <<>>
    /\ review_src = <<>>
    /\ workbook = NoWorkbook
    /\ error = "none"
    /\ input_file = NoInputFile
    /\ companies = <<>>
    /\ career_page = <<>>
    /\ results = <<>>
    /\ output = <<>>

(* Values of GEMINI_API_KEY: unset, empty, set. *)
ApiKeys == {PyNone, PyStr(""), PyStr("a")}

(* main over an input list of up to MaxUrls URLs, with or without a key. *)
Init ==
    /\ api_key \in ApiKeys
    /\ \E n \in 0..MaxUrls : InitMain([i \in 1..n |-> i], World)

Spec == Init /\ [][Next]_vars

(* main over one URL whose page is fetched and whose job-extraction query  *)
(* the oracle answers with a given text.                                   *)
InitExtract ==
    /\ api_key = PyStr("a")
    /\ \E t \in Texts :
        InitMain(<<1>>, [pages |-> {Result(FALSE, <<"x">>)},
                         job_replies |-> {Result(FALSE, t)},
                         review_replies |-> Answers(ReviewReplies)])

SpecExtract == InitExtract /\ [][Next]_vars

(* export_to_excel called on given lists. *)
InitExport ==
    /\ api_key = PyStr("a")
    /\ urls = <<>>
    /\ world = World
    /\ pc = "export_to_excel"
    /\ idx = 1
    /\ html_content = <<>>
    /\ job_response = <<>>
    /\ job_data = PyNone
    /\ review_response = <<>>
    /\ review_data = PyNone
    /\ job_data_list \in SeqsUpTo(JobPool, MaxJobs)
    /\ review_data_list \in SeqsUpTo(BundlePool, MaxBundles)
    /\ calls = <<>>
    /\ fate = <<>>
    /\ extracted = <<>>
    /\ job_src = <<>>
    /\ review_src = <<>>
    /\ workbook = NoWorkbook
    /\ error = "none"
    /\ input_file = NoInputFile
    /\ companies = <<>>
    /\ career_page = <<>>
    /\ results = <<>>
    /\ output = <<>>

ExportCall ==
    /\ pc = "export_to_excel"
    /\ workbook' = ExportToExcel(job_data_list, review_data_list).wb
    /\ error' = ExportToExcel(job_data_list, review_data_list).raised
    /\ pc' = "returned"
    /\ UNCHANGED finder_vars
    /\ UNCHANGED <<api_key, urls, world, idx, html_content, job_response, job_data,
                   review_response, review_data, job_data_list, review_data_list,
                   calls, fate, extracted, job_src, review_src>>

SpecExport == InitExport /\ [][ExportCall]_vars

---------------------------------------------------------------------------
(* page_finder.py: CareerPageFinder.                                       *)

MaxCompanies == 2

(* str.strip(): the text without its leading and trailing whitespace. *)
Strip(t) ==
    LET N == {k \in 1..Len(t) : t[k] \notin Ws} IN
    IF N = {} THEN <<>>
    ELSE SubSeq(t, CHOOSE a \in N : \A y \in N : a <= y,
                   CHOOSE b \in N : \A y \in N : y <= b)

(* find_career_page: send_request's text, or its marker, stripped.  (The   *)
(* except clause never runs: send_request returns a str and never raises.) *)
FindCareerPage(r) == Strip(SendRequest(r))

(* career_page.startswith("http") *)
HttpToks == {"https://acme.com/careers"}
StartsWithHttp(t) == IF Len(t) = 0 THEN FALSE ELSE t[1] \in HttpToks

(* The branch process_company_list takes on a lookup's result. *)
Classify(page) ==
    IF StartsWithError(page) THEN "error"
    ELSE IF page = <<"NOT_FOUND">> THEN "not_found"
    ELSE IF StartsWithHttp(page) THEN "found"
    ELSE "unexpected"

(* The string appended to results for one company. *)
ResultLine(company, page) ==
    CASE Classify(page) = "error" -> company \o <<SP, "|", SP, "ERROR">>
      [] Classify(page) = "not_found" -> company \o <<SP, "|", SP, "NOT_FOUND">>
      [] OTHER -> company \o <<SP, "|", SP>> \o page

(* [line.strip() for line in f if line.strip()] *)
NonBlank(line) == Strip(line) # <<>>
ReadCompanies(lines) ==
    LET kept == SelectSeq(lines, NonBlank) IN
    [i \in 1..Len(kept) |-> Strip(kept[i])]

(* The two header lines of the report. *)
ReportHeader == <<"Company | Career Page URL", NL,
                  "============================================================", NL>>

(* f.write(result + "\n") for every result, after the header. *)
RECURSIVE ReportBody(_, _)
ReportBody(rs, i) ==
    IF i > Len(rs) THEN <<>> ELSE rs[i] \o <<NL>> \o ReportBody(rs, i + 1)

LookupCall(i, r, page) ==
    [i |-> i, op |-> "find_career_page", raised |-> r.raised, returned |-> page]

(* The input file is read: a missing file or one without a company name    *)
(* ends the run with no report.                                            *)
ReadInput ==
    /\ pc = "read_input"
    /\ IF ~input_file.exists
       THEN /\ pc' = "done"
            /\ UNCHANGED companies
       ELSE /\ companies' = ReadCompanies(input_file.lines)
            /\ pc' = IF ReadCompanies(input_file.lines) = <<>> THEN "done"
                     ELSE "find_career_page"
    /\ UNCHANGED <<api_key, urls, world, idx, html_content, job_response, job_data,
                   review_response, review_data, job_data_list, review_data_list,
                   calls, fate, extracted, job_src, review_src, workbook, error,
                   input_file, career_page, results, output>>

(* One iteration of the loop over companies. *)
Lookup ==
    /\ pc = "find_career_page"
    /\ \E r \in world.lookup_replies :
        /\ career_page' = FindCareerPage(r)
        /\ calls' = Append(calls, LookupCall(idx, r, FindCareerPage(r)))
        /\ results' = Append(results, ResultLine(companies[idx], FindCareerPage(r)))
    /\ idx' = idx + 1
    /\ pc' = IF idx + 1 > Len(companies) THEN "write" ELSE "find_career_page"
    /\ UNCHANGED <<api_key, urls, world, html_content, job_response, job_data,
                   review_response, review_data, job_data_list, review_data_list,
                   fate, extracted, job_src, review_src, workbook, error,
                   input_file, companies, output>>

(* The report is written after the loop. *)
WriteReport ==
    /\ pc = "write"
    /\ output' = ReportHeader \o ReportBody(results, 1)
    /\ pc' = "done"
    /\ UNCHANGED <<api_key, urls, world, idx, html_content, job_response, job_data,
                   review_response, review_data, job_data_list, review_data_list,
                   calls, fate, extracted, job_src, review_src, workbook, error,
                   input_file, companies, career_page, results>>

NextFinder == ReadInput \/ Lookup \/ WriteReport

(* Lines of the input file and answers of the oracle to the lookup. *)
InputLines == {<<"Acme">>, <<SP, "a", SP>>, <<"a", SP, "x">>, <<SP>>, <<>>}
LookupReplies == {<<"https://acme.com/careers">>, <<"NOT_FOUND">>,
                  <<"NOT_FOUND", NL>>, <<"NOT_FOUND", SP, "x">>, <<"x">>,
                  <<SP, "https://acme.com/careers", NL>>,
                  <<"x", NL, "x">>, <<"ERROR", SP, "x">>, <<>>}

(* process_company_list is a method of a constructed CareerPageFinder:    *)
(* its Genai client exists, so the key is set.                             *)
InitFinder ==
    /\ api_key = PyStr("a")
    /\ urls = <<>>
    /\ world = [lookup_replies |-> Answers(LookupReplies)]
    /\ pc = "read_input"
    /\ idx = 1
    /\ html_content = <<>>
    /\ job_response = <<>>
    /\ job_data = PyNone
    /\ review_response = <<>>
    /\ review_data = PyNone
    /\ job_data_list = <<>>
    /\ review_data_list = <<>>
    /\ calls = <<>>
    /\ fate = <<>>
    /\ extracted = <<>>
    /\ job_src = <<>>
    /\ review_src = <<>>
    /\ workbook = NoWorkbook
    /\ error = "none"
    /\ input_file \in {NoInputFile}
                      \cup {InputFile(l) : l \in SeqsUpTo(InputLines, MaxCompanies)}
    /\ companies = <<>>
    /\ career_page = <<>>
    /\ results = <<>>
    /\ output = <<>>

SpecFinder == InitFinder /\ [][NextFinder]_vars

---------------------------------------------------------------------------
(* Properties of the driver.                                               *)

Count(q, x) == Cardinality({k \in 1..Len(q) : q[k] = x})
Finished(i) == fate[i] \in {"accumulated", "skipped"}
Ended == pc \in {"export", "done"}
Rank(op) == CASE op = "get_html" -> 1 [] op = "parse_job" -> 2 [] op = "get_reviews" -> 3
CalledFor(i, op) == \E k \in 1..Len(calls) : calls[k].i = i /\ calls[k].op = op

(* C1: once a run that started (the oracle client was constructed) has     *)
(* ended, every URL of the input has been processed and is either          *)
(* accumulated or skipped: no URL's failure ends the loop.                 *)
C1_EveryUrlAccumulatedOrSkipped ==
    (Ended /\ ~GenaiInitRaises(api_key)) => \A i \in 1..Len(urls) : Finished(i)

(* C2: a URL whose job extraction gave a non-empty record has that record  *)
(* in job_data_list exactly once when the run has ended, whatever the      *)
(* review call answered.                                                   *)
C2_JobAppendedExactlyOnce ==
    Ended =>
        \A i \in 1..Len(urls) :
            LET e == extracted[i].job IN
            (e.called /\ e.val.kind = "dict" /\ Truthy(e.val)) =>
                /\ Count(job_src, i) = 1
                /\ \A k \in 1..Len(job_src) : job_src[k] = i => job_data_list[k] = e.val

(* C3: get_reviews is called for a URL only when its job extraction gave a *)
(* non-empty record whose company is truthy and is not "Unknown" (the      *)
(* default of a missing company_name); every bundle in review_data_list    *)
(* comes from such a call, at most one per URL, and its URL's posting is   *)
(* accumulated with it.                                                    *)
C3_ReviewsOnlyForResolvedCompany ==
    /\ \A k \in 1..Len(calls) :
          calls[k].op = "get_reviews" =>
              LET e == extracted[calls[k].i].job
                  company == Get(e.val, "company_name", PyStr("Unknown"))
              IN  /\ e.called /\ e.val.kind = "dict" /\ Truthy(e.val)
                  /\ Truthy(company) /\ company # PyStr("Unknown")
    /\ Len(review_src) = Len(review_data_list)
    /\ \A i \in 1..Len(urls) :
          /\ Count(review_src, i) <= 1
          /\ Count(review_src, i) = 1 =>
                CalledFor(i, "get_reviews") /\ Count(job_src, i) = 1

C3_Witness ==
    /\ pc = "done"
    /\ Len(urls) = 2
    /\ CalledFor(1, "get_reviews") /\ review_src = <<1>> /\ job_src = <<1, 2>>
    /\ ~CalledFor(2, "get_reviews")
    /\ Get(job_data_list[2], "company_name", PyNone) = PyStr("Unknown")

(* C4: the calls are made one URL after the other; for one URL they are    *)
(* fetch, then job extraction, then review, each at most once; and a call  *)
(* for a URL is made only when every earlier URL is accumulated or skipped.*)
C4_SequentialNoRetry ==
    \A k \in 1..Len(calls) :
        /\ k = 1 => calls[k].i = 1 /\ calls[k].op = "get_html"
        /\ k > 1 =>
              \/ /\ calls[k].i = calls[k - 1].i
                 /\ Rank(calls[k].op) = Rank(calls[k - 1].op) + 1
              \/ /\ calls[k].i = calls[k - 1].i + 1
                 /\ calls[k].op = "get_html"
        /\ \A i \in 1..(calls[k].i - 1) : Finished(i)
        /\ k > 1 /\ calls[k].op # "get_html" => ~calls[k - 1].raised

C4_Witness ==
    /\ Len(calls) = 4
    /\ calls[3].op = "get_reviews" /\ calls[3].i = 1
    /\ calls[4].op = "get_html" /\ calls[4].i = 2
    /\ calls[4].raised

(* C10: when the loop has run to its end, a workbook has been written if   *)
(* and only if job_data_list or review_data_list holds something.          *)
C10_WorkbookIffData ==
    (pc = "done" /\ \A i \in 1..Len(urls) : Finished(i)) =>
        (workbook.written <=> (job_data_list # <<>> \/ review_data_list # <<>>))

---------------------------------------------------------------------------
(* Properties of extract_json, stated on the text without the regular      *)
(* expressions' matching order.                                            *)

(* c is where the contents of a fenced block opened at i start: the fence, *)
(* an optional "json", whitespace, and a newline right before c.           *)
IsOpener(t, i, c) ==
    /\ t[i] = FENCE
    /\ \E j \in {i + 1} \cup (IF i + 1 <= Len(t) /\ t[i + 1] = "json" THEN {i + 2} ELSE {}) :
          /\ j <= c - 1 /\ c - 1 <= Len(t)
          /\ \A k \in j..(c - 1) : t[k] \in Ws
          /\ t[c - 1] = NL

(* A closing fence: a newline at e and the fence right after it. *)
IsCloser(t, e) == e + 1 <= Len(t) /\ t[e] = NL /\ t[e + 1] = FENCE

(* The fenced blocks of t: <<i, c, e>> with the fence at i, the contents   *)
(* from c up to e - 1.                                                     *)
FencedBlocks(t) ==
    {b \in (1..Len(t)) \X (1..Len(t)) \X (1..Len(t)) :
        IsOpener(t, b[1], b[2]) /\ IsCloser(t, b[3]) /\ b[2] <= b[3]}
BlockContents(t, b) == SubSeq(t, b[2], b[3] - 1)

(* The first-"{"-to-last-"}" substring of t, or <<>> when there is none. *)
BraceSpan(t) ==
    LET A == {a \in 1..Len(t) : t[a] = "{"}
        B == {b \in 1..Len(t) : t[b] = "}"}
    IN  IF \E a \in A : \E b \in B : a < b
        THEN SubSeq(t, CHOOSE a \in A : \A y \in A : a <= y,
                       CHOOSE b \in B : \A y \in B : y <= b)
        ELSE <<>>

NoStructure(t) ==
    /\ ~JsonLoads(t).ok
    /\ \A b \in FencedBlocks(t) : ~JsonLoads(BlockContents(t, b)).ok
    /\ ~JsonLoads(BraceSpan(t)).ok

(* The blocks C5 is about: valid JSON in the first fenced block of the     *)
(* text, prose (no fence) before it, anything after it.                    *)
WrappedJson(t) ==
    {b \in FencedBlocks(t) :
        /\ \A k \in 1..(b[1] - 1) : t[k] # FENCE
        /\ JsonLoads(BlockContents(t, b)).ok}

FencedRecovered(x) ==
    x.called => \A b \in WrappedJson(x.text) :
                    x.val = JsonLoads(BlockContents(x.text, b)).val

(* C5: when a response wraps valid JSON in a fenced block (three backticks,*)
(* optionally tagged json), with prose before and after it, extract_json   *)
(* returns what json.loads returns for the block's contents alone.         *)
C5_FencedJsonRecovered ==
    \A i \in 1..Len(urls) :
        FencedRecovered(extracted[i].job) /\ FencedRecovered(extracted[i].review)

C5_Witness ==
    LET x == extracted[1].job IN
    /\ Len(urls) = 1 /\ x.called /\ Len(x.text) > 0
    /\ x.text[1] # FENCE /\ x.text[Len(x.text)] # FENCE
    /\ \E b \in WrappedJson(x.text) : x.text[b[1] + 1] # "json"
    /\ x.val.kind = "list"

(* C6: extract_json returns a record (a mapping), the empty record when it *)
(* could not parse: never a list, string, number or null.                  *)
C6_AlwaysARecord ==
    \A i \in 1..Len(urls) :
        /\ extracted[i].job.called => extracted[i].job.val.kind = "dict"
        /\ extracted[i].review.called => extracted[i].review.val.kind = "dict"

(* C7: a response with no parseable structure (not as a whole, not in any  *)
(* fenced block, not from the first "{" to the last "}") makes extract_json*)
(* return the empty record; the driver goes on and appends nothing for it: *)
(* a job response leaves the URL skipped with no posting, no review call   *)
(* and no bundle; a review response leaves no bundle.                      *)
C7_NoStructureDropped ==
    \A i \in 1..Len(urls) :
        /\ (extracted[i].job.called /\ NoStructure(extracted[i].job.text)) =>
              /\ extracted[i].job.val = EmptyDict
              /\ fate[i] = "skipped"
              /\ Count(job_src, i) = 0 /\ Count(review_src, i) = 0
              /\ ~CalledFor(i, "get_reviews")
        /\ (extracted[i].review.called /\ NoStructure(extracted[i].review.text)) =>
              /\ extracted[i].review.val = EmptyDict
              /\ fate[i] = "accumulated"
              /\ Count(review_src, i) = 0

C7_Witness ==
    LET t == extracted[1].job.text IN
    /\ pc = "done" /\ error = "none"
    /\ extracted[1].job.called /\ NoStructure(t)
    /\ \E a \in 1..Len(t) : \E b \in 1..Len(t) : a < b /\ t[a] = "{" /\ t[b] = "}"
    /\ \E k \in 1..Len(t) : t[k] = FENCE
    /\ job_data_list = <<>> /\ review_data_list = <<>>

---------------------------------------------------------------------------
(* Properties of export_to_excel.                                          *)

(* The number a match_score stands for: a number itself, a string of       *)
(* digits its value, anything else (null, no key) 0.                       *)
ScoreOf(job) ==
    LET v == Get(job, "match_score", PyNum(0)) IN
    IF v.kind = "num" THEN v.n
    ELSE IF v = PyStr("9") THEN 9
    ELSE IF v = PyStr("10") THEN 10
    ELSE 0

(* rows is jobs sorted by score, highest first, equal scores in their      *)
(* original order.                                                         *)
IsStableDescending(rows, jobs) ==
    /\ Len(rows) = Len(jobs)
    /\ \E perm \in [1..Len(jobs) -> 1..Len(jobs)] :
          /\ \A k \in 1..Len(jobs) : rows[k] = JobRow(jobs[perm[k]])
          /\ \A k \in 1..Len(jobs) : \A l \in 1..Len(jobs) :
                k < l => \/ ScoreOf(jobs[perm[k]]) > ScoreOf(jobs[perm[l]])
                         \/ /\ ScoreOf(jobs[perm[k]]) = ScoreOf(jobs[perm[l]])
                            /\ perm[k] < perm[l]

(* C8: for every non-empty list of postings, also with ties, missing       *)
(* scores and scores that are strings or null, export_to_excel writes      *)
(* Jobs Summary rows sorted by score descending (missing as 0), stable.    *)
C8_JobsSortedStable ==
    (pc = "returned" /\ job_data_list # <<>>) =>
        /\ workbook.written
        /\ IsStableDescending(workbook.jobs_rows, job_data_list)

ReviewsOf(bundle) == Get(bundle, "reviews", PyList(<<>>)).items
RowsOf(bundle) == IF Len(ReviewsOf(bundle)) = 0 THEN 1 ELSE Len(ReviewsOf(bundle))
RECURSIVE RowsBefore(_, _)
RowsBefore(bundles, i) ==
    IF i <= 1 THEN 0 ELSE RowsBefore(bundles, i - 1) + RowsOf(bundles[i - 1])

(* C9: in the Company Reviews sheet a bundle takes max(1, number of        *)
(* reviews) consecutive rows, bundles in list order: one row per review in *)
(* the reviews' order, each with the company name and aggregated score; a  *)
(* bundle without reviews one row with the name, the score and blanks.     *)
C9_ReviewRowsPerBundle ==
    (pc = "returned" /\ workbook.written) =>
        LET rows == workbook.reviews_rows
            bs == review_data_list
        IN  /\ Len(rows) = RowsBefore(bs, Len(bs) + 1)
            /\ \A i \in 1..Len(bs) :
                  LET name == Get(bs[i], "company_name", PyStr(""))
                      score == Get(bs[i], "aggregated_review_score", PyNum(0))
                      off == RowsBefore(bs, i)
                      rv == ReviewsOf(bs[i])
                  IN  IF Len(rv) = 0
                      THEN rows[off + 1] = <<name, score, Blank, Blank, Blank, Blank>>
                      ELSE \A j \in 1..Len(rv) :
                              rows[off + j] =
                                  <<name, score,
                                    Get(rv[j], "source", PyStr("")),
                                    Get(rv[j], "rating", PyStr("")),
                                    Get(rv[j], "comment", PyStr("")),
                                    Get(rv[j], "url", PyStr(""))>>

C9_Witness ==
    /\ pc = "returned" /\ workbook.written
    /\ Len(review_data_list) = 2
    /\ RowsOf(review_data_list[1]) = 1 /\ Len(ReviewsOf(review_data_list[1])) = 0
    /\ Len(ReviewsOf(review_data_list[2])) = 2
    /\ Len(workbook.reviews_rows) = 3

---------------------------------------------------------------------------
(* Properties of the failure classification.                               *)

(* C12: a stage result counts as a failure exactly when the external call  *)
(* failed: a URL is skipped at the fetch exactly when get_html's request   *)
(* raised, and an oracle response is left unparsed (skipped at the oracle) *)
(* exactly when the request raised, whatever the returned text starts with.*)
C12_SkippedOnlyWhenCallFailed ==
    \A k \in 1..Len(calls) :
        LET i == calls[k].i IN
        /\ calls[k].op = "get_html" =>
              ((fate[i] = "skipped" /\ ~CalledFor(i, "parse_job")) <=> calls[k].raised)
        /\ calls[k].op = "parse_job" =>
              (~extracted[i].job.called <=> calls[k].raised)
        /\ calls[k].op = "get_reviews" =>
              (~extracted[i].review.called <=> calls[k].raised)

---------------------------------------------------------------------------
(* Properties of the career-page report.                                   *)

(* The lines of a text: what each "\n" ends. *)
RECURSIVE SplitLines(_, _, _)
SplitLines(t, i, cur) ==
    IF i > Len(t) THEN (IF cur = <<>> THEN <<>> ELSE <<cur>>)
    ELSE IF t[i] = NL THEN <<cur>> \o SplitLines(t, i + 1, <<>>)
    ELSE SplitLines(t, i + 1, Append(cur, t[i]))

HeaderLines == 2

(* The result the report owes company i: what its lookup returned (a URL,  *)
(* NOT_FOUND, or the oracle's unexpected output); for a lookup whose       *)
(* request failed, the error marker, in full or as the word ERROR.         *)
OwedResults(i) ==
    IF calls[i].raised THEN {calls[i].returned, <<"ERROR">>}
    ELSE {calls[i].returned}

(* C11: the report holds, after its header, exactly one line per company   *)
(* of the input, in input order, each "<company> | <result>" with the      *)
(* result of that company's lookup.                                        *)
C11_OneResultLinePerCompany ==
    (pc = "done" /\ companies # <<>>) =>
        LET ls == SplitLines(output, 1, <<>>) IN
        /\ Len(ls) = HeaderLines + Len(companies)
        /\ \A i \in 1..Len(companies) :
              \E res \in OwedResults(i) :
                  ls[HeaderLines + i] = companies[i] \o <<SP, "|", SP>> \o res

=============================================================================
